---- MODULE Spec2Model ----
(***************************************************************************)
(* Model of the MicroPython Waveshare 2.7" e-paper driver                  *)
(* (src/waveshare2in7.py, class EPD).                                      *)
(*                                                                         *)
(* The driver is single threaded and synchronous.  Every public method is  *)
(* one action that runs the method up to the place where it blocks on the  *)
(* busy input (wait_until_idle) or returns.  The busy loop is the only     *)
(* place where the environment (the panel) is read, so each poll is a step *)
(* of its own.  What a method did on the wires is recorded in `log`, one   *)
(* entry per pin write, bus write or delay, each entry carrying the levels *)
(* of the three output lines right after it.                               *)
(***************************************************************************)
EXTENDS Integers, Sequences, FiniteSets, TLC

VARIABLES
    orientation,  \* self.orientation
    fbw,          \* width the FrameBuffer object was created with
    fbh,          \* height the FrameBuffer object was created with
    buffer,       \* self.buffer, a sequence of bytes (index 1 = byte 0)
    cs,           \* level of the chip-select line
    dc,           \* level of the data/command line
    rst,          \* level of the reset line
    pc,           \* "caller" | "wait_until_idle" | "return"
    op,           \* the public method running or just returned
    log,          \* wire events of that method, oldest first
    lastRead,     \* last value read from the busy input in this call, -1 = none
    npolls,       \* times the busy loop slept in this call, see Slept
    result,       \* what the method returned: "None", "True", "False"
    fread,        \* sizes of the f.read() calls _load_bmp made
    args,         \* arguments of the method running or just returned
    xin,          \* input of the buffer transform under test
    xout,         \* its output
    xback         \* output of the second transform applied to xout

vars == <<orientation, fbw, fbh, buffer, cs, dc, rst, pc, op, log,
          lastRead, npolls, result, fread, args, xin, xout, xback>>

-----------------------------------------------------------------------------
(* Program constants *)

WHITE == 255
BLACK == 0
EPD_WIDTH == 176
EPD_HEIGHT == 264
DEEP_SLEEP == 7
BUSY == 0
SPI_BATCH_SIZE == 64

(* Bounds of the model *)

MaxPolls == 1

-----------------------------------------------------------------------------
(* Integer helpers for Python's bit operators on bytes *)

Pow2 == <<1, 2, 4, 8, 16, 32, 64, 128>>

\* (v >> k) & 1
Bit(v, k) == (v \div Pow2[k + 1]) % 2

\* v | (1 << k)
OrBit(v, k) == IF Bit(v, k) = 1 THEN v ELSE v + Pow2[k + 1]

\* v & ~(1 << k)
ClrBit(v, k) == IF Bit(v, k) = 1 THEN v - Pow2[k + 1] ELSE v

Min(a, b) == IF a < b THEN a ELSE b

\* bytearray(n): n zero bytes
ZeroBytes(n) == [i \in 1..n |-> 0]

\* [v] * n
Repeat(v, n) == [i \in 1..n |-> v]

\* buffer[i:end] with 0-based i, end
Slice(s, i, end) == SubSeq(s, i + 1, end)

-----------------------------------------------------------------------------
(* Dimensions *)

\* EPD.width
width(o) == IF o % 2 = 0 THEN EPD_WIDTH ELSE EPD_HEIGHT

\* EPD.height
height(o) == IF o % 2 = 0 THEN EPD_HEIGHT ELSE EPD_WIDTH

\* buffer_size in __init__
buffer_size(o) == (width(o) * height(o) + 7) \div 8

-----------------------------------------------------------------------------
(* Wire events.  A pin state is a record [cs, dc, rst].  Every framer       *)
(* function maps the pin state at its call to the events it produces; the  *)
(* pin state after a list of events is that of its last event.             *)

Ev(o, a, p) == [op |-> o, arg |-> a, cs |-> p.cs, dc |-> p.dc, rst |-> p.rst]

PinsOf(e) == [cs |-> e.cs, dc |-> e.dc, rst |-> e.rst]

\* pin state after the events evs, started in pin state p
After(p, evs) == IF evs = <<>> THEN p ELSE PinsOf(evs[Len(evs)])

\* self.cs(v)
SetCs(p, v) == [p EXCEPT !.cs = v]
\* self.dc(v)
SetDc(p, v) == [p EXCEPT !.dc = v]
\* self.rst(v)
SetRst(p, v) == [p EXCEPT !.rst = v]

\* sleep_ms(ms)
SleepEv(p, ms) == <<Ev("sleep", <<ms>>, p)>>

-----------------------------------------------------------------------------
(* Command/Data framer *)

\* EPD._command(command) with data=None
_command(p, command) ==
    LET p1 == SetDc(p, 0)
        p2 == SetCs(p1, 0)
        p3 == SetCs(p2, 1)
    IN  << Ev("dc", <<0>>, p1),
           Ev("cs", <<0>>, p2),
           Ev("spi_cmd", <<command>>, p2),
           Ev("cs", <<1>>, p3) >>

\* faulty variant of _data: chip-select is pulled low before the
\* data/command line is set
data_select_first(p, data) ==
    LET p1 == SetCs(p, 0)
        p2 == SetDc(p1, 1)
        p3 == SetCs(p2, 1)
    IN  << Ev("cs", <<0>>, p1),
           Ev("dc", <<1>>, p2),
           Ev("spi_data", data, p2),
           Ev("cs", <<1>>, p3) >>

\* EPD._data(data): data an int (sent as one byte) or a bytes object
_data(p, data) ==
    LET p1 == SetDc(p, 1)
        p2 == SetCs(p1, 0)
        p3 == SetCs(p2, 1)
    IN  << Ev("dc", <<1>>, p1),
           Ev("cs", <<0>>, p2),
           Ev("spi_data", data, p2),
           Ev("cs", <<1>>, p3) >>

\* EPD._data_batch(data_list): nothing at all for an empty list
_data_batch(p, data_list) ==
    IF data_list = <<>>
    THEN <<>>
    ELSE LET p1 == SetDc(p, 1)
             p2 == SetCs(p1, 0)
             p3 == SetCs(p2, 1)
         IN  << Ev("dc", <<1>>, p1),
                Ev("cs", <<0>>, p2),
                Ev("spi_data", data_list, p2),
                Ev("cs", <<1>>, p3) >>

(* A method body is a list of calls, in program order.  Each call is a     *)
(* record naming the function called and its argument.                     *)

Cmd(c)      == [f |-> "_command", a |-> <<c>>]
Data(b)     == [f |-> "_data", a |-> <<b>>]
Batch(bs)   == [f |-> "_data_batch", a |-> bs]
Rst(v)      == [f |-> "rst", a |-> <<v>>]
Sleep(ms)   == [f |-> "sleep_ms", a |-> <<ms>>]

\* the events of one call made in pin state p
Call(p, c) ==
    CASE c.f = "_command"    -> _command(p, c.a[1])
      [] c.f = "_data"       -> _data(p, c.a)
      [] c.f = "_data_batch" -> _data_batch(p, c.a)
      [] c.f = "rst"         -> <<Ev("rst", c.a, SetRst(p, c.a[1]))>>
      [] c.f = "sleep_ms"    -> <<Ev("sleep", c.a, p)>>

\* the events of calls[lo..hi] made one after the other from pin state p
RECURSIVE Run(_, _, _, _)
Run(p, calls, lo, hi) ==
    IF lo > hi THEN <<>>
    ELSE IF lo = hi THEN Call(p, calls[lo])
    ELSE LET mid   == (lo + hi) \div 2
             first == Run(p, calls, lo, mid)
         IN  first \o Run(After(p, first), calls, mid + 1, hi)

\* the events of a whole method body
Exec(p, calls) == Run(p, calls, 1, Len(calls))

-----------------------------------------------------------------------------
(* Refresh driver *)

\* faulty variant of _send_buffer_batched: range(0, len - len % batch, batch),
\* which never sends the final partial batch
send_full_batches_only(buf) ==
    [k \in 1..(Len(buf) \div SPI_BATCH_SIZE) |->
        LET i == (k - 1) * SPI_BATCH_SIZE
        IN  Batch(Slice(buf, i, i + SPI_BATCH_SIZE))]

\* faulty variant of _send_buffer_batched: the batch size is used as the
\* number of batches, range(0, len, len // batch + 1) with slices of that step
send_in_batch_size_pieces(buf) ==
    LET step == Len(buf) \div SPI_BATCH_SIZE + 1
    IN  [k \in 1..((Len(buf) + step - 1) \div step) |->
            LET i   == (k - 1) * step
                end == Min(i + step, Len(buf))
            IN  Batch(Slice(buf, i, end))]

\* EPD._send_buffer_batched(buffer)
_send_buffer_batched(buf) ==
    [k \in 1..((Len(buf) + SPI_BATCH_SIZE - 1) \div SPI_BATCH_SIZE) |->
        LET i   == (k - 1) * SPI_BATCH_SIZE
            end == Min(i + SPI_BATCH_SIZE, Len(buf))
        IN  Batch(Slice(buf, i, end))]

\* faulty variant of the bit reversal: `for bit in range(7)`, bit 7 is lost
FlipByteSevenBits(v) ==
      128 * Bit(v, 0) + 64 * Bit(v, 1) + 32 * Bit(v, 2) + 16 * Bit(v, 3)
    + 8 * Bit(v, 4) + 4 * Bit(v, 5) + 2 * Bit(v, 6)

\* the byte reversal with bit reversal display_frame does for orientation 2
FlipByte(v) ==
      128 * Bit(v, 0) + 64 * Bit(v, 1) + 32 * Bit(v, 2) + 16 * Bit(v, 3)
    + 8 * Bit(v, 4) + 4 * Bit(v, 5) + 2 * Bit(v, 6) + Bit(v, 7)

\* faulty variant of the orientation-2 transform: the bits of each byte
\* are reversed but the bytes keep their place
FlipBitsInPlace(frame_buffer) ==
    [j \in 1..Len(frame_buffer) |-> FlipByte(frame_buffer[j])]

Flip180(frame_buffer) ==
    LET n == Len(frame_buffer)
    IN  [j \in 1..n |-> FlipByte(frame_buffer[n + 1 - j])]

-----------------------------------------------------------------------------
(* Orientation transform engine.                                           *)
(*                                                                         *)
(* Both rotations run the same loop: for ly in range(height), for lx in    *)
(* range(width), set_physical_pixel(logical_to_physical(lx, ly),           *)
(* get_logical_pixel(lx, ly)) on a zeroed physical buffer.  The resulting  *)
(* bit q of the physical buffer is the pixel read by the last iteration    *)
(* (lx, ly) whose set_physical_pixel addresses bit q, and 0 when there is  *)
(* none.  set_physical_pixel addresses bit new_y * EPD_WIDTH + new_x, and  *)
(* new_x is ly (90) or height-1-ly (270), so an iteration addressing q has *)
(* ly or height-1-ly equal to q % EPD_WIDTH + k * EPD_WIDTH for some k >= 0*)
(* below height / EPD_WIDTH; each such candidate is confirmed with the     *)
(* forward map of the code.                                                *)

\* physical_buffer_size in both rotations
physical_buffer_size == (EPD_WIDTH * EPD_HEIGHT + 7) \div 8

\* faulty variant of logical_to_physical (90): the x axis is not mirrored
logical_to_physical_90_unmirrored(o, x, y) == <<y, x>>

\* logical_to_physical of _rotate_buffer_90_cw
logical_to_physical_90(o, x, y) == <<y, width(o) - 1 - x>>

\* faulty variant of logical_to_physical (270): the y axis is not mirrored
logical_to_physical_270_unmirrored(o, x, y) == <<y, x>>

\* logical_to_physical of _rotate_buffer_270_cw
logical_to_physical_270(o, x, y) == <<height(o) - 1 - y, x>>

\* faulty variant of get_logical_pixel: least significant bit first
get_logical_pixel_lsb_first(o, logical_buffer, x, y) ==
    LET bit_index  == y * width(o) + x
        byte_index == bit_index \div 8
        bit_offset == bit_index % 8
    IN  Bit(logical_buffer[byte_index + 1], bit_offset)

\* get_logical_pixel of both rotations
get_logical_pixel(o, logical_buffer, x, y) ==
    LET bit_index  == y * width(o) + x
        byte_index == bit_index \div 8
        bit_offset == bit_index % 8
    IN  Bit(logical_buffer[byte_index + 1], 7 - bit_offset)

\* bit_index of set_physical_pixel in both rotations
physical_bit_index(pxy) == pxy[2] * EPD_WIDTH + pxy[1]

\* the (value, mask) byte set_physical_pixel leaves: bit 7 - bit_offset
\* of byte bit_index // 8 holds the value, so the byte is the sum of its bits
PackByte(b0, b1, b2, b3, b4, b5, b6, b7) ==
    128 * b0 + 64 * b1 + 32 * b2 + 16 * b3 + 8 * b4 + 4 * b5 + 2 * b6 + b7

\* Candidate number k of the 90 loop for physical bit q: the iteration
\* with ly = q % EPD_WIDTH + k * EPD_WIDTH, and whether it addresses q
Cand90(o, q, k) ==
    <<width(o) - 1 - ((q \div EPD_WIDTH) - k), (q % EPD_WIDTH) + k * EPD_WIDTH>>

Hits90(o, q, k) ==
    LET it == Cand90(o, q, k)
    IN  /\ it[1] >= 0 /\ it[1] < width(o)
        /\ it[2] >= 0 /\ it[2] < height(o)
        /\ physical_bit_index(logical_to_physical_90(o, it[1], it[2])) = q

\* Candidate number k of the 270 loop for physical bit q: the iteration
\* with height - 1 - ly = q % EPD_WIDTH + k * EPD_WIDTH
Cand270(o, q, k) ==
    <<(q \div EPD_WIDTH) - k, height(o) - 1 - ((q % EPD_WIDTH) + k * EPD_WIDTH)>>

Hits270(o, q, k) ==
    LET it == Cand270(o, q, k)
    IN  /\ it[1] >= 0 /\ it[1] < width(o)
        /\ it[2] >= 0 /\ it[2] < height(o)
        /\ physical_bit_index(logical_to_physical_270(o, it[1], it[2])) = q

\* number of candidate rows less one
MaxCand(o) == (height(o) - 1) \div EPD_WIDTH

\* the candidate of the 90 loop that runs last (largest ly) among 0..k,
\* -1 when none addresses q
RECURSIVE Last90(_, _, _)
Last90(o, q, k) ==
    IF k < 0 THEN 0 - 1
    ELSE IF Hits90(o, q, k) THEN k
    ELSE Last90(o, q, k - 1)

\* the candidate of the 270 loop that runs last (largest ly, so smallest
\* k) among k..MaxCand, -1 when none addresses q
RECURSIVE Last270(_, _, _)
Last270(o, q, k) ==
    IF k > MaxCand(o) THEN 0 - 1
    ELSE IF Hits270(o, q, k) THEN k
    ELSE Last270(o, q, k + 1)

\* bit q of the buffer _rotate_buffer_90_cw returns
RotBit90(o, logical_buffer, q) ==
    LET k == Last90(o, q, MaxCand(o))
    IN  IF k < 0 THEN 0
        ELSE get_logical_pixel(o, logical_buffer,
                               Cand90(o, q, k)[1], Cand90(o, q, k)[2])

\* bit q of the buffer _rotate_buffer_270_cw returns
RotBit270(o, logical_buffer, q) ==
    LET k == Last270(o, q, 0)
    IN  IF k < 0 THEN 0
        ELSE get_logical_pixel(o, logical_buffer,
                               Cand270(o, q, k)[1], Cand270(o, q, k)[2])

\* EPD._rotate_buffer_90_cw(logical_buffer) with self.orientation = o
_rotate_buffer_90_cw(o, logical_buffer) ==
    [j \in 1..physical_buffer_size |->
        LET q == 8 * (j - 1)
        IN  PackByte(RotBit90(o, logical_buffer, q),
                     RotBit90(o, logical_buffer, q + 1),
                     RotBit90(o, logical_buffer, q + 2),
                     RotBit90(o, logical_buffer, q + 3),
                     RotBit90(o, logical_buffer, q + 4),
                     RotBit90(o, logical_buffer, q + 5),
                     RotBit90(o, logical_buffer, q + 6),
                     RotBit90(o, logical_buffer, q + 7))]

\* EPD._rotate_buffer_270_cw(logical_buffer) with self.orientation = o
_rotate_buffer_270_cw(o, logical_buffer) ==
    [j \in 1..physical_buffer_size |->
        LET q == 8 * (j - 1)
        IN  PackByte(RotBit270(o, logical_buffer, q),
                     RotBit270(o, logical_buffer, q + 1),
                     RotBit270(o, logical_buffer, q + 2),
                     RotBit270(o, logical_buffer, q + 3),
                     RotBit270(o, logical_buffer, q + 4),
                     RotBit270(o, logical_buffer, q + 5),
                     RotBit270(o, logical_buffer, q + 6),
                     RotBit270(o, logical_buffer, q + 7))]

\* the buffer display_frame streams after the second 0x24
Transformed(o, frame_buffer) ==
    CASE o = 0 -> frame_buffer
      [] o = 2 -> Flip180(frame_buffer)
      [] o = 1 -> _rotate_buffer_90_cw(o, frame_buffer)
      [] o = 3 -> _rotate_buffer_270_cw(o, frame_buffer)

\* set_physical_pixel of both rotations, on a physical buffer
set_physical_pixel(physical_buffer, x, y, value) ==
    LET bit_index  == physical_bit_index(<<x, y>>)
        byte_index == bit_index \div 8
        bit_offset == bit_index % 8
        old        == physical_buffer[byte_index + 1]
    IN  [physical_buffer EXCEPT ![byte_index + 1] =
            IF value # 0 THEN OrBit(old, 7 - bit_offset)
            ELSE ClrBit(old, 7 - bit_offset)]

-----------------------------------------------------------------------------
(* The FrameBuffer object over self.buffer (framebuf.MONO_HLSB): rows of    *)
(* (w + 7) // 8 bytes, pixel x of a row in bit 7 - (x & 7) of byte x >> 3. *)

RowBytes(w) == (w + 7) \div 8

\* FrameBuffer.fill(c): every pixel of the w x h grid becomes (c != 0)
FbFill(buf, w, h, c) ==
    [i \in 1..Len(buf) |->
        LET y     == (i - 1) \div RowBytes(w)
            x0    == 8 * ((i - 1) % RowBytes(w))
            inrow == Min(8, w - x0)           \* pixels of this byte in the grid
            col   == IF c # 0 THEN 1 ELSE 0
        IN  IF y >= h THEN buf[i]
            ELSE IF inrow = 8 THEN 255 * col
            ELSE PackByte(IF 0 < inrow THEN col ELSE Bit(buf[i], 7),
                          IF 1 < inrow THEN col ELSE Bit(buf[i], 6),
                          IF 2 < inrow THEN col ELSE Bit(buf[i], 5),
                          IF 3 < inrow THEN col ELSE Bit(buf[i], 4),
                          IF 4 < inrow THEN col ELSE Bit(buf[i], 3),
                          IF 5 < inrow THEN col ELSE Bit(buf[i], 2),
                          IF 6 < inrow THEN col ELSE Bit(buf[i], 1),
                          IF 7 < inrow THEN col ELSE Bit(buf[i], 0))]

\* FrameBuffer.pixel(x, y) on a w x h grid, for a pixel inside it
FbGetPixel(buf, w, h, x, y) ==
    Bit(buf[(x \div 8) + y * RowBytes(w) + 1], 7 - (x % 8))

\* FrameBuffer.pixel(x, y, c): ignored outside the grid
FbSetPixel(buf, w, h, x, y, c) ==
    IF x < 0 \/ x >= w \/ y < 0 \/ y >= h THEN buf
    ELSE LET k   == (x \div 8) + y * RowBytes(w) + 1
             old == buf[k]
         IN  [buf EXCEPT ![k] = IF c # 0 THEN OrBit(old, 7 - (x % 8))
                                ELSE ClrBit(old, 7 - (x % 8))]

-----------------------------------------------------------------------------
(* BMP decoder.  A file is the sequence of its bytes.                      *)

\* f.read(n) at 0-based position pos
FileRead(file, pos, n) == SubSeq(file, pos + 1, Min(pos + n, Len(file)))

\* struct.unpack("<I", b)[0] for a 4-byte b
LE32(b) == b[1] + 256 * b[2] + 65536 * b[3] + 16777216 * b[4]

\* faulty variant of the 16-bit read: only the low byte is taken
LE16LowByte(b) == b[1]

\* struct.unpack("<H", b)[0] for a 2-byte b
LE16(b) == b[1] + 256 * b[2]

\* what _load_bmp did not return but raised
BmpError(reads) == [ok |-> FALSE, width |-> 0, height |-> 0, data |-> <<>>,
                    reads |-> reads]

\* the row loop of _load_bmp: fb_data after reading the rows bottom-to-top
BmpRows(file, pixel_offset, bw, bh) ==
    LET row_size       == ((bw + 31) \div 32) * 4
        fb_width_bytes == (bw + 7) \div 8
    IN  [k \in 1..(fb_width_bytes * bh) |->
            LET y        == (k - 1) \div fb_width_bytes
                x_byte   == (k - 1) % fb_width_bytes
                nread    == bh - 1 - y         \* rows read before row y
                pos      == Min(pixel_offset + nread * row_size, Len(file))
                row_data == FileRead(file, pos, row_size)
            IN  IF x_byte < Len(row_data) THEN row_data[x_byte + 1] ELSE 0]

\* EPD._load_bmp(filename), filename holding the bytes file
_load_bmp(file) ==
    LET header == FileRead(file, 0, 14)
    IN  IF SubSeq(header, 1, Min(2, Len(header))) # <<66, 77>>
        THEN BmpError(<<14>>)
        ELSE IF Len(header) < 14 THEN BmpError(<<14>>)
        ELSE
        LET pixel_offset == LE32(SubSeq(header, 11, 14))
            dib_header   == FileRead(file, 14, 40)
        IN  IF Len(dib_header) < 16 THEN BmpError(<<14, 40>>)
            ELSE
            LET bw             == LE32(SubSeq(dib_header, 5, 8))
                bh             == LE32(SubSeq(dib_header, 9, 12))
                bits_per_pixel == LE16(SubSeq(dib_header, 15, 16))
                row_size       == ((bw + 31) \div 32) * 4
            IN  IF bits_per_pixel # 1 THEN BmpError(<<14, 40>>)
                ELSE [ok |-> TRUE, width |-> bw, height |-> bh,
                      data |-> BmpRows(file, pixel_offset, bw, bh),
                      reads |-> <<14, 40>> \o Repeat(row_size, bh)]

\* The copy loop of draw_bmp: for by, for bx,
\* self.framebuf.pixel(x + bx, y + by, bmp_fb.pixel(bx, by)).
\* Pixel (px, py) of the main grid is set by the one iteration
\* (bx, by) = (px - x, py - y), if that is a pixel of the picture, and
\* FrameBuffer.pixel ignores a pixel outside the w x h grid.
BmpCopyBit(buf, w, h, bmp, x, y, px, py, old) ==
    IF /\ px >= 0 /\ px < w /\ py >= 0 /\ py < h
       /\ px - x >= 0 /\ px - x < bmp.width
       /\ py - y >= 0 /\ py - y < bmp.height
    THEN IF FbGetPixel(bmp.data, bmp.width, bmp.height, px - x, py - y) # 0
         THEN 1 ELSE 0
    ELSE old

BmpCopy(buf, w, h, bmp, x, y) ==
    [i \in 1..Len(buf) |->
        LET py  == (i - 1) \div RowBytes(w)
            px0 == 8 * ((i - 1) % RowBytes(w))
            v   == buf[i]
        IN  IF py < y \/ py >= y + bmp.height
               \/ px0 + 7 < x \/ px0 >= x + bmp.width
            THEN v
            ELSE PackByte(
                BmpCopyBit(buf, w, h, bmp, x, y, px0, py, Bit(v, 7)),
                BmpCopyBit(buf, w, h, bmp, x, y, px0 + 1, py, Bit(v, 6)),
                BmpCopyBit(buf, w, h, bmp, x, y, px0 + 2, py, Bit(v, 5)),
                BmpCopyBit(buf, w, h, bmp, x, y, px0 + 3, py, Bit(v, 4)),
                BmpCopyBit(buf, w, h, bmp, x, y, px0 + 4, py, Bit(v, 3)),
                BmpCopyBit(buf, w, h, bmp, x, y, px0 + 5, py, Bit(v, 2)),
                BmpCopyBit(buf, w, h, bmp, x, y, px0 + 6, py, Bit(v, 1)),
                BmpCopyBit(buf, w, h, bmp, x, y, px0 + 7, py, Bit(v, 0)))]

\* faulty variant of draw_bmp: the far edges are not checked
draw_bmp_near_edges_only(o, buf, w, h, file, x, y) ==
    LET bmp == _load_bmp(file)
    IN  IF ~bmp.ok
        THEN [ret |-> "False", buffer |-> buf, reads |-> bmp.reads]
        ELSE IF x < 0 \/ y < 0
        THEN [ret |-> "False", buffer |-> buf, reads |-> bmp.reads]
        ELSE [ret |-> "True",
              buffer |-> BmpCopy(buf, w, h, bmp, x, y),
              reads |-> bmp.reads]

\* EPD.draw_bmp(filename, x, y): the returned value and self.buffer after it
draw_bmp(o, buf, w, h, file, x, y) ==
    LET bmp == _load_bmp(file)
    IN  IF ~bmp.ok
        THEN [ret |-> "False", buffer |-> buf, reads |-> bmp.reads]
        ELSE IF \/ x < 0
                \/ y < 0
                \/ x + bmp.width > width(o)
                \/ y + bmp.height > height(o)
        THEN [ret |-> "False", buffer |-> buf, reads |-> bmp.reads]
        ELSE [ret |-> "True",
              buffer |-> BmpCopy(buf, w, h, bmp, x, y),
              reads |-> bmp.reads]

-----------------------------------------------------------------------------
(* Method bodies as call lists *)

\* faulty variant of the reset pulse: the line is held low for 1 ms
ResetPulseShortLow == <<Rst(1), Sleep(200), Rst(0), Sleep(1), Rst(1), Sleep(200)>>

\* the reset pulse of init and of reset_display
ResetPulse == <<Rst(1), Sleep(200), Rst(0), Sleep(2), Rst(1), Sleep(200)>>

\* faulty variant of init(): data-entry mode and the RAM X window are sent
\* in the opposite order
InitCallsWindowFirst ==
    ResetPulse \o
    << Cmd(18), Sleep(10),
       Cmd(1), Data(183), Data(1), Data(0),
       Cmd(68), Data(0), Data(21),
       Cmd(17), Data(3),
       Cmd(69), Data(0), Data(0), Data(7), Data(1),
       Cmd(60), Data(5),
       Cmd(24), Data(128),
       Cmd(34), Data(177),
       Cmd(32),
       Cmd(78), Data(0),
       Cmd(79), Data(0), Data(0) >>

\* EPD.init()
InitCalls ==
    ResetPulse \o
    << Cmd(18), Sleep(10),                              \* 0x12 soft reset
       Cmd(1), Data(183), Data(1), Data(0),             \* 0x01: B7 01 00
       Cmd(17), Data(3),                                \* 0x11: 03
       Cmd(68), Data(0), Data(21),                      \* 0x44: 00 15
       Cmd(69), Data(0), Data(0), Data(7), Data(1),     \* 0x45: 00 00 07 01
       Cmd(60), Data(5),                                \* 0x3C: 05
       Cmd(24), Data(128),                              \* 0x18: 80
       Cmd(34), Data(177),                              \* 0x22: B1
       Cmd(32),                                         \* 0x20
       Cmd(78), Data(0),                                \* 0x4E: 00
       Cmd(79), Data(0), Data(0) >>                     \* 0x4F: 00 00

\* faulty variant of the batch loop: the partial batch is sent as a full one
ConstBatchesAllFull(n, byte) ==
    [k \in 1..((n + SPI_BATCH_SIZE - 1) \div SPI_BATCH_SIZE) |->
        Batch(Repeat(byte, SPI_BATCH_SIZE))]

\* the batch loop of _clear_display_fast and of fill_black
ConstBatches(n, byte) ==
    [k \in 1..((n + SPI_BATCH_SIZE - 1) \div SPI_BATCH_SIZE) |->
        LET i   == (k - 1) * SPI_BATCH_SIZE
            end == Min(i + SPI_BATCH_SIZE, n)
        IN  IF end - i = SPI_BATCH_SIZE
            THEN Batch(Repeat(byte, SPI_BATCH_SIZE))
            ELSE Batch(Repeat(byte, end - i))]

\* EPD._clear_display_fast()
_clear_display_fast(buf) ==
    << Cmd(78), Data(0), Cmd(79), Data(0), Data(0), Cmd(36) >>
    \o ConstBatches(Len(buf), 255)

\* the display update both commits and fills end with, before the busy wait
Activate == << Cmd(34), Data(199), Cmd(32) >>             \* 0x22: C7, 0x20

\* EPD.clear() up to its wait_until_idle
ClearCalls(buf) == _clear_display_fast(buf) \o Activate

\* EPD.fill_black() up to its wait_until_idle
FillBlackCalls(buf) ==
    << Cmd(78), Data(0), Cmd(79), Data(0), Data(0), Cmd(36) >>
    \o ConstBatches(Len(buf), 0)
    \o Activate

\* EPD.display_frame(frame_buffer) up to its wait_until_idle
DisplayFrameCalls(o, frame_buffer) ==
    << Cmd(36) >>                                        \* 0x24
    \o [i \in 1..Len(frame_buffer) |-> Data(255)]
    \o << Cmd(78), Data(0),                              \* 0x4E: 00
          Cmd(79), Data(183), Data(1),                   \* 0x4F: B7 01
          Cmd(36) >>                                     \* 0x24
    \o _send_buffer_batched(Transformed(o, frame_buffer))
    \o Activate

\* faulty variant of sleep(): the payload byte is left out
SleepCallsCommandOnly == << Cmd(DEEP_SLEEP) >>

\* EPD.sleep(): _command(DEEP_SLEEP, b"\xA5")
SleepCalls == << Cmd(DEEP_SLEEP), [f |-> "_data", a |-> <<165>>] >>

\* EPD.reset_display() up to the wait_until_idle of its clear()
ResetDisplayCalls(buf) == ResetPulse \o InitCalls \o ClearCalls(buf)

-----------------------------------------------------------------------------
(* Inputs *)

Orientations == 0..3

\* a BMP file: 14-byte file header, 40-byte BITMAPINFOHEADER, pixel rows
Le32Bytes(v) == << v % 256, (v \div 256) % 256, (v \div 65536) % 256,
                   (v \div 16777216) % 256 >>

BmpFile(m1, m2, bw, bh, bpp, rows) ==
    << m1, m2 >> \o Le32Bytes(54 + Len(rows)) \o << 0, 0, 0, 0 >>
    \o Le32Bytes(54)
    \o Le32Bytes(40) \o Le32Bytes(bw) \o Le32Bytes(bh) \o << 1, 0 >>
    \o << bpp % 256, bpp \div 256 >> \o Repeat(0, 24)
    \o rows

\* 8x8, 1 bit per pixel, all black: 8 rows of 4 bytes
BlackBmp == BmpFile(66, 77, 8, 8, 1, Repeat(0, 32))
\* the same picture stored with 24 bits per pixel
Bmp24 == BmpFile(66, 77, 8, 8, 24,  Repeat(0, 192))
\* the same bytes without the "BM" magic
NoMagicBmp == BmpFile(80, 75, 8, 8, 1, Repeat(0, 32))
\* 8x8, 1 bit per pixel, a different byte in every row
PictureBmp == BmpFile(66, 77, 8, 8, 1,
                      [k \in 1..32 |-> IF k % 4 = 1 THEN (37 * k + 5) % 256 ELSE 0])
\* 10x3, 1 bit per pixel: rows of two used bytes in four
WideBmp == BmpFile(66, 77, 10, 3, 1,
                   [k \in 1..12 |-> IF k % 4 \in {1, 2} THEN (91 * k) % 256 ELSE 0])
\* other depths, one of them with low byte 1
BmpDepth(bpp) == BmpFile(66, 77, 8, 8, bpp, Repeat(0, 32))
\* half a magic, and files cut short
HalfMagicBmp == BmpFile(66, 75, 8, 8, 1, Repeat(0, 32))
CutBmp(n) == SubSeq(BlackBmp, 1, n)

\* the files and places the display machine is driven with
Files == { BlackBmp, Bmp24, NoMagicBmp }
Places == { <<0, 0>>, <<0 - 1, 0>>, <<257, 0>> }

\* the files and places the decoder is driven with
MaxCut == 3
DecoderFiles ==
    { BlackBmp, PictureBmp, WideBmp, Bmp24, NoMagicBmp, HalfMagicBmp,
      BmpDepth(0), BmpDepth(4), BmpDepth(8), BmpDepth(257) }
    \cup { CutBmp(n) : n \in 0..MaxCut } \cup { CutBmp(14), CutBmp(29) }
DecoderPlaces ==
    { <<0, 0>>, <<0 - 1, 0>>, <<0, 0 - 1>>, <<168, 0>>, <<169, 0>>,
      <<0, 168>>, <<0, 169>>, <<256, 0>>, <<257, 0>>, <<0, 256>>,
      <<0, 257>>, <<166, 173>> }

\* the buffers the transforms are driven with: all zero, all one, and
\* NumPatterns buffers with a different byte pattern each
NumPatterns == 8
Pattern(k) ==
    [i \in 1..physical_buffer_size |->
        (i * (2 * k + 3) + (i \div 22) * (k + 1) + (i \div 33) * 5 + k * k) % 256]
Patterns ==
    { ZeroBytes(physical_buffer_size), Repeat(255, physical_buffer_size) }
    \cup { Pattern(k) : k \in 1..NumPatterns }

-----------------------------------------------------------------------------
(* The state machine *)

Pins == [cs |-> cs, dc |-> dc, rst |-> rst]

\* EPD.__init__(spi, cs, dc, rst, busy, orientation)
Init ==
    /\ orientation \in Orientations
    /\ fbw = width(orientation)
    /\ fbh = height(orientation)
    /\ buffer = ZeroBytes(buffer_size(orientation))
    /\ cs = 1
    /\ dc = 0
    /\ rst = 0
    /\ pc = "caller"
    /\ op = "-"
    /\ log = <<>>
    /\ lastRead = 0 - 1
    /\ npolls = 0
    /\ result = "None"
    /\ fread = <<>>
    /\ args = <<>>
    /\ xin = <<>>
    /\ xout = <<>>
    /\ xback = <<>>

\* a method is entered: the record of the previous call is replaced
Enter(name, a) ==
    /\ pc = "caller"
    /\ op' = name
    /\ args' = a
    /\ lastRead' = 0 - 1
    /\ npolls' = 0
    /\ UNCHANGED <<fbw, fbh, xin, xout, xback>>

\* the method put evs on the wires
Wires(evs) ==
    /\ log' = evs
    /\ cs' = After(Pins, evs).cs
    /\ dc' = After(Pins, evs).dc
    /\ rst' = After(Pins, evs).rst

\* faulty variant of set_orientation: the buffer is allocated anew for the
\* new orientation
SetOrientationRealloc ==
    \E o \in Orientations :
        /\ Enter("set_orientation", <<o>>)
        /\ orientation' = o
        /\ buffer' = ZeroBytes(buffer_size(o))
        /\ Wires(<<>>)
        /\ pc' = "return"
        /\ result' = "None"
        /\ UNCHANGED fread

\* EPD.set_orientation(orientation)
SetOrientation ==
    \E o \in Orientations :
        /\ Enter("set_orientation", <<o>>)
        /\ orientation' = o
        /\ Wires(<<>>)
        /\ pc' = "return"
        /\ result' = "None"
        /\ UNCHANGED <<buffer, fread>>

\* EPD.init()
InitDisplay ==
    /\ Enter("init", <<>>)
    /\ Wires(Exec(Pins, InitCalls))
    /\ pc' = "return"
    /\ result' = "None"
    /\ UNCHANGED <<orientation, buffer, fread>>

\* faulty variant of display_frame: returns right after master activation,
\* without the call of wait_until_idle
DisplayFrameNoWait ==
    /\ Enter("display_frame", buffer)
    /\ Wires(Exec(Pins, DisplayFrameCalls(orientation, buffer)))
    /\ pc' = "return"
    /\ result' = "None"
    /\ UNCHANGED <<orientation, buffer, fread>>

\* EPD.display(): display_frame(self.buffer), up to the busy wait
DisplayFrame ==
    /\ Enter("display_frame", buffer)
    /\ Wires(Exec(Pins, DisplayFrameCalls(orientation, buffer)))
    /\ pc' = "wait_until_idle"
    /\ result' = "None"
    /\ UNCHANGED <<orientation, buffer, fread>>

\* EPD.clear(), and force_clear() and clear_large_range() which only call it
Clear ==
    \E name \in {"clear", "force_clear", "clear_large_range"} :
        /\ Enter(name, <<>>)
        /\ Wires(Exec(Pins, ClearCalls(buffer)))
        /\ pc' = "wait_until_idle"
        /\ result' = "None"
        /\ UNCHANGED <<orientation, buffer, fread>>

\* EPD.fill_black()
FillBlack ==
    /\ Enter("fill_black", <<>>)
    /\ Wires(Exec(Pins, FillBlackCalls(buffer)))
    /\ pc' = "wait_until_idle"
    /\ result' = "None"
    /\ UNCHANGED <<orientation, buffer, fread>>

\* EPD.sleep()
SleepDisplay ==
    /\ Enter("sleep", <<>>)
    /\ Wires(Exec(Pins, SleepCalls))
    /\ pc' = "return"
    /\ result' = "None"
    /\ UNCHANGED <<orientation, buffer, fread>>

\* EPD.reset_display()
ResetDisplay ==
    /\ Enter("reset_display", <<>>)
    /\ Wires(Exec(Pins, ResetDisplayCalls(buffer)))
    /\ pc' = "wait_until_idle"
    /\ result' = "None"
    /\ UNCHANGED <<orientation, buffer, fread>>

\* EPD.fill(color)
Fill ==
    \E color \in {BLACK, WHITE} :
        /\ Enter("fill", <<color>>)
        /\ buffer' = FbFill(buffer, fbw, fbh, color)
        /\ Wires(<<>>)
        /\ pc' = "return"
        /\ result' = "None"
        /\ UNCHANGED <<orientation, fread>>

\* EPD.draw_bmp(filename, x, y) with a file and a place of the given sets
DrawBmpIn(files, places) ==
    \E file \in files, xy \in places :
        LET r == draw_bmp(orientation, buffer, fbw, fbh, file, xy[1], xy[2])
        IN  /\ Enter("draw_bmp", <<file, xy[1], xy[2]>>)
            /\ buffer' = r.buffer
            /\ fread' = r.reads
            /\ result' = r.ret
            /\ Wires(<<>>)
            /\ pc' = "return"
            /\ UNCHANGED orientation

DrawBmp == DrawBmpIn(Files, Places)

\* the count of sleeps after one more sleep_ms(100): exact up to MaxPolls,
\* beyond that it alternates between MaxPolls + 1 and MaxPolls, so that a
\* pass of the loop is always a step that changes the state
Slept(n) == IF n <= MaxPolls THEN n + 1 ELSE MaxPolls

\* faulty variant of the methods' last step: self.framebuf.fill(...) left out
AfterWaitWithoutFill(name, buf) == buf

\* what a method does after its wait_until_idle returned
AfterWait(name, buf) ==
    CASE name \in {"clear", "force_clear", "clear_large_range", "reset_display"}
              -> FbFill(buf, fbw, fbh, 255)
      [] name = "fill_black" -> FbFill(buf, fbw, fbh, 0)
      [] OTHER -> buf

\* faulty variant of wait_until_idle: `while self.busy.value() != BUSY`
WaitUntilIdleInverted ==
    /\ pc = "wait_until_idle"
    /\ \E value \in {0, 1} :
        /\ lastRead' = value
        /\ IF value # BUSY
           THEN /\ npolls' = Slept(npolls)
                /\ pc' = pc
                /\ buffer' = buffer
           ELSE /\ npolls' = npolls
                /\ pc' = "return"
                /\ buffer' = AfterWait(op, buffer)
    /\ UNCHANGED <<orientation, fbw, fbh, cs, dc, rst, op, log, result,
                   fread, args, xin, xout, xback>>

\* faulty variant of wait_until_idle: the loop gives up once it has slept
\* MaxPolls times
WaitUntilIdleTimeout ==
    /\ pc = "wait_until_idle"
    /\ \E value \in {0, 1} :
        /\ lastRead' = value
        /\ IF value = BUSY /\ npolls < MaxPolls
           THEN /\ npolls' = npolls + 1
                /\ pc' = pc
                /\ buffer' = buffer
           ELSE /\ npolls' = npolls
                /\ pc' = "return"
                /\ buffer' = AfterWait(op, buffer)
    /\ UNCHANGED <<orientation, fbw, fbh, cs, dc, rst, op, log, result,
                   fread, args, xin, xout, xback>>

\* EPD.wait_until_idle(): one pass of `while self.busy.value() == BUSY`
WaitUntilIdle ==
    /\ pc = "wait_until_idle"
    /\ \E value \in {0, 1} :
        /\ lastRead' = value
        /\ IF value = BUSY
           THEN /\ npolls' = Slept(npolls)                 \* sleep_ms(100)
                /\ pc' = pc
                /\ buffer' = buffer
           ELSE /\ npolls' = npolls
                /\ pc' = "return"
                /\ buffer' = AfterWait(op, buffer)
    /\ UNCHANGED <<orientation, fbw, fbh, cs, dc, rst, op, log, result,
                   fread, args, xin, xout, xback>>

\* the method returns to its caller
Return ==
    /\ pc = "return"
    /\ pc' = "caller"
    /\ op' = "-"
    /\ log' = <<>>
    /\ lastRead' = 0 - 1
    /\ npolls' = 0
    /\ result' = "None"
    /\ fread' = <<>>
    /\ args' = <<>>
    /\ UNCHANGED <<orientation, fbw, fbh, buffer, cs, dc, rst, xin, xout, xback>>

Next ==
    \/ SetOrientation
    \/ InitDisplay
    \/ DisplayFrame
    \/ Clear
    \/ FillBlack
    \/ SleepDisplay
    \/ ResetDisplay
    \/ Fill
    \/ DrawBmp
    \/ WaitUntilIdle
    \/ Return

Spec == Init /\ [][Next]_vars

-----------------------------------------------------------------------------
(* The decoder and blit alone: draw_bmp with many files and places, on a   *)
(* buffer as construction or fill left it, in every orientation.           *)

PlainBuffer(buf) ==
    buf \in { ZeroBytes(Len(buf)), Repeat(255, Len(buf)) }

DrawBmpDecoder ==
    /\ PlainBuffer(buffer)
    /\ DrawBmpIn(DecoderFiles, DecoderPlaces)

NextBmp ==
    \/ SetOrientation
    \/ Fill
    \/ DrawBmpDecoder
    \/ Return

SpecBmp == Init /\ [][NextBmp]_vars

-----------------------------------------------------------------------------
(* The orientation transforms alone, as display_frame applies them to a    *)
(* frame buffer, followed by a second transform applied to the result:     *)
(* the same one for orientations 0 and 2, and for orientations 1 and 3 the *)
(* opposite rotation run with width and height swapped (an orientation of  *)
(* the other parity, so that self.width is the width of its input).        *)

InitXf ==
    /\ orientation \in Orientations
    /\ fbw = width(orientation)
    /\ fbh = height(orientation)
    /\ buffer = ZeroBytes(buffer_size(orientation))
    /\ cs = 1
    /\ dc = 0
    /\ rst = 0
    /\ pc = "caller"
    /\ op = "-"
    /\ log = <<>>
    /\ lastRead = 0 - 1
    /\ npolls = 0
    /\ result = "None"
    /\ fread = <<>>
    /\ args = <<>>
    /\ xin \in Patterns
    /\ xout = <<>>
    /\ xback = <<>>

\* the second transform
SecondTransform(o, buf) ==
    CASE o = 0 -> buf
      [] o = 2 -> Flip180(buf)
      [] o = 1 -> _rotate_buffer_270_cw(2, buf)
      [] o = 3 -> _rotate_buffer_90_cw(0, buf)

XfApply ==
    /\ xin # <<>>
    /\ xout = <<>>
    /\ xout' = Transformed(orientation, xin)
    /\ UNCHANGED <<orientation, fbw, fbh, buffer, cs, dc, rst, pc, op, log,
                   lastRead, npolls, result, fread, args, xin, xback>>

XfSecond ==
    /\ xout # <<>>
    /\ xback = <<>>
    /\ xback' = SecondTransform(orientation, xout)
    /\ UNCHANGED <<orientation, fbw, fbh, buffer, cs, dc, rst, pc, op, log,
                   lastRead, npolls, result, fread, args, xin, xout>>

NextXf == XfApply \/ XfSecond

SpecXf == InitXf /\ [][NextXf]_vars

-----------------------------------------------------------------------------
(* Reading the log of a call *)

IsCmd(e, c) == e.op = "spi_cmd" /\ e.arg = <<c>>

IsSpi(e) == e.op \in {"spi_cmd", "spi_data"}

\* positions of the command byte c in the log l
CmdAt(l, c) == { i \in 1..Len(l) : IsCmd(l[i], c) }

SetMax(S) == CHOOSE x \in S : \A y \in S : y <= x
SetMin(S) == CHOOSE x \in S : \A y \in S : x <= y

\* the data bytes written on the bus by l[lo..hi], in order
RECURSIVE DataBytes(_, _, _)
DataBytes(l, lo, hi) ==
    IF lo > hi THEN <<>>
    ELSE IF lo = hi
         THEN (IF l[lo].op = "spi_data" THEN l[lo].arg ELSE <<>>)
         ELSE LET mid == (lo + hi) \div 2
              IN  DataBytes(l, lo, mid) \o DataBytes(l, mid + 1, hi)

\* the bus writes of l[lo..hi], in order
SpiEvents(l, lo, hi) ==
    IF lo > hi THEN <<>> ELSE SelectSeq(SubSeq(l, lo, hi), IsSpi)

\* a call of display_frame that has sent everything it sends
Committed == op = "display_frame" /\ pc \in {"wait_until_idle", "return"}

-----------------------------------------------------------------------------
-----------------------------------------------------------------------------
(* C2: in every display_frame, for each orientation, the pixel data is     *)
(* followed by command 0x22 with the data byte 0xC7 and then command 0x20, *)
(* nothing else is written on the bus after the pixel data, the busy input *)
(* is only polled once 0x20 has been sent, and display_frame has not       *)
(* returned unless the last poll read the busy input idle (1).             *)
C2_CommitTail ==
    (op = "display_frame") =>
        LET last24 == SetMax(CmdAt(log, 36))
            at22   == SetMax(CmdAt(log, 34))
            pixels == SpiEvents(log, last24 + 1, at22 - 1)
            tail   == SpiEvents(log, at22, Len(log))
        IN  /\ Committed
            /\ CmdAt(log, 36) # {}
            /\ CmdAt(log, 34) # {}
            /\ last24 < at22
            /\ pixels # <<>>
            /\ \A k \in 1..Len(pixels) : pixels[k].op = "spi_data"
            /\ [k \in 1..Len(tail) |-> <<tail[k].op, tail[k].arg>>]
                  = << <<"spi_cmd", <<34>> >>, <<"spi_data", <<199>> >>,
                       <<"spi_cmd", <<32>> >> >>
            /\ pc = "wait_until_idle" => lastRead \in {0 - 1, BUSY}
            /\ pc = "return" => lastRead = 1

\* display_frame returned after a poll that read busy and one that read idle
C2_Witness ==
    /\ op = "display_frame"
    /\ pc = "return"
    /\ npolls >= 1
    /\ lastRead = 1
    /\ orientation = 3

-----------------------------------------------------------------------------
(* C3: wait_until_idle has returned only if its most recent read of the    *)
(* busy input was idle (a value other than BUSY = 0); as long as no read   *)
(* was made, or the last read was busy, the caller is still inside the     *)
(* wait.  (The loop leaves on the first idle read, so "every read so far   *)
(* was busy" is "the last read was busy or there was none".)               *)
WaitingOps ==
    {"display_frame", "clear", "force_clear", "clear_large_range",
     "fill_black", "reset_display"}

C3_ReturnsOnlyWhenIdle ==
    (op \in WaitingOps) =>
        /\ pc \in {"wait_until_idle", "return"}
        /\ pc = "return" => (lastRead # BUSY /\ lastRead # 0 - 1)
        /\ pc = "wait_until_idle" => lastRead \in {0 - 1, BUSY}
        /\ lastRead \in {0 - 1, BUSY} => pc = "wait_until_idle"

\* the wait of reset_display() saw busy at least once and then returned
C3_Witness ==
    /\ op = "reset_display"
    /\ pc = "return"
    /\ npolls = MaxPolls
    /\ lastRead # BUSY

-----------------------------------------------------------------------------
(* C4: when clear() (or force_clear() / clear_large_range(), which only    *)
(* call it) has returned, every byte of the logical buffer is 0xFF, and    *)
(* when fill_black() has returned every byte is 0x00, in every orientation *)
(* and whatever grid the FrameBuffer was constructed with.                 *)
ClearOps == {"clear", "force_clear", "clear_large_range"}

C4_BufferAfterClear ==
    /\ (pc = "return" /\ op \in ClearOps) =>
           (Len(buffer) = 5808 /\ \A i \in 1..Len(buffer) : buffer[i] = 255)
    /\ (pc = "return" /\ op = "fill_black") =>
           (Len(buffer) = 5808 /\ \A i \in 1..Len(buffer) : buffer[i] = 0)

\* clear() returned on a driver whose orientation was changed after
\* construction (the FrameBuffer grid is still the one of construction)
C4_Witness ==
    /\ pc = "return"
    /\ op = "clear"
    /\ width(orientation) # fbw
    /\ buffer = Repeat(255, 5808)

-----------------------------------------------------------------------------
(* C5: clear() and fill_black() send the write-RAM command 0x24 once and   *)
(* after it exactly len(buffer) data bytes, all 0xFF (clear) or all 0x00   *)
(* (fill_black), in batches of 64 with a final batch of len(buffer) % 64   *)
(* bytes, then 0x22 with 0xC7 and 0x20 and nothing more; they are then in  *)
(* the busy wait and have returned only after an idle read.                *)
ConstByte(name) == IF name = "fill_black" THEN 0 ELSE 255

C5_ConstantStream ==
    (op \in ClearOps \cup {"fill_black"}) =>
        LET at24   == SetMin(CmdAt(log, 36))
            at22   == SetMin(CmdAt(log, 34))
            stream == SpiEvents(log, at24 + 1, at22 - 1)
            tail   == SpiEvents(log, at22, Len(log))
            n      == Len(buffer)
        IN  /\ Cardinality(CmdAt(log, 36)) = 1
            /\ Cardinality(CmdAt(log, 34)) = 1
            /\ at24 < at22
            /\ DataBytes(log, at24 + 1, at22 - 1) = Repeat(ConstByte(op), n)
            /\ Len(stream) = (n + SPI_BATCH_SIZE - 1) \div SPI_BATCH_SIZE
            /\ \A k \in 1..Len(stream) :
                  /\ stream[k].op = "spi_data"
                  /\ Len(stream[k].arg) =
                        IF k * SPI_BATCH_SIZE <= n THEN SPI_BATCH_SIZE
                        ELSE n % SPI_BATCH_SIZE
            /\ [k \in 1..Len(tail) |-> <<tail[k].op, tail[k].arg>>]
                  = << <<"spi_cmd", <<34>> >>, <<"spi_data", <<199>> >>,
                       <<"spi_cmd", <<32>> >> >>
            /\ pc \in {"wait_until_idle", "return"}
            /\ pc = "return" => lastRead = 1

\* fill_black() returned, its last batch having been a partial one
C5_Witness ==
    /\ op = "fill_black"
    /\ pc = "return"
    /\ Len(buffer) % SPI_BATCH_SIZE = 48
    /\ \E i \in 1..Len(log) :
          log[i].op = "spi_data" /\ Len(log[i].arg) = 48

-----------------------------------------------------------------------------
(* C6 (as stated): for o in {1, 3} and every logical buffer B, the         *)
(* orientation-o rotation followed by the opposite rotation, run with      *)
(* width and height swapped (on the 176 x 264 buffer the first rotation    *)
(* returned), reproduces B bit for bit.                                    *)
C6_RoundTrip ==
    (orientation \in {1, 3} /\ xback # <<>>) => xback = xin

\* bit b of the logical buffer as read back from the rotated buffer rot:
\* logical pixel (x, y) = (b % 264, b // 264) is looked up at physical
\* (y, 263 - x) for orientation 1 and at (175 - y, x) for orientation 3,
\* with the native stride of 176 pixels, most significant bit first
ReadBackBit(o, rot, b) ==
    LET x  == b % EPD_HEIGHT
        y  == b \div EPD_HEIGHT
        px == IF o = 1 THEN y ELSE EPD_WIDTH - 1 - y
        py == IF o = 1 THEN EPD_HEIGHT - 1 - x ELSE x
        q  == py * EPD_WIDTH + px
    IN  (rot[(q \div 8) + 1] \div Pow2[8 - (q % 8)]) % 2

ReadBack(o, rot) ==
    [j \in 1..Len(rot) |->
        LET b == 8 * (j - 1)
        IN    128 * ReadBackBit(o, rot, b)    + 64 * ReadBackBit(o, rot, b + 1)
            + 32 * ReadBackBit(o, rot, b + 2) + 16 * ReadBackBit(o, rot, b + 3)
            + 8 * ReadBackBit(o, rot, b + 4)  + 4 * ReadBackBit(o, rot, b + 5)
            + 2 * ReadBackBit(o, rot, b + 6)  + ReadBackBit(o, rot, b + 7)]

\* the pixel positions the accessors are tried at: every column of the
\* first two rows and of the last row
AccessorPoints == (0..(EPD_WIDTH - 1)) \X {0, 1, EPD_HEIGHT - 1}

(* C6 (amended): for o in {1, 3} and every logical buffer B, the rotated   *)
(* buffer holds B bit for bit: reading it back at the place the rotation   *)
(* maps each logical pixel to, with the native stride, reproduces B.  The  *)
(* get-bit and set-bit accessors are inverse on a buffer of the native     *)
(* width: a bit set at (x, y) by set_physical_pixel is the bit             *)
(* get_logical_pixel reads at (x, y) when self.width is 176, and no other  *)
(* bit of that byte changes.                                               *)
C6_RotationReadBack ==
    (orientation \in {1, 3} /\ xout # <<>>) =>
        /\ Len(xout) = Len(xin)
        /\ ReadBack(orientation, xout) = xin
        /\ \A pt \in AccessorPoints : \A v \in {0, 1} :
              LET after == set_physical_pixel(xout, pt[1], pt[2], v)
              IN  /\ get_logical_pixel(0, after, pt[1], pt[2]) = v
                  /\ \A d \in 0..7 :
                        LET x2 == 8 * (pt[1] \div 8) + d
                        IN  x2 # pt[1] =>
                              get_logical_pixel(0, after, x2, pt[2])
                                = get_logical_pixel(0, xout, x2, pt[2])

\* a buffer that is not constant was rotated for orientation 1, and the
\* opposite rotation was applied to the result
C6_Witness ==
    /\ orientation = 1
    /\ xout # <<>>
    /\ xback # <<>>
    /\ \E i \in 1..Len(xin) : xin[i] # xin[1]
    /\ xout # xin

-----------------------------------------------------------------------------
(* C7: the orientation-2 transform of display_frame (byte order reversed,  *)
(* bit order reversed inside each byte) is self-inverse: applied twice to  *)
(* a buffer B it yields B.                                                 *)
C7_Flip180SelfInverse ==
    (orientation = 2 /\ xback # <<>>) =>
        /\ Len(xback) = Len(xin)
        /\ \A i \in 1..Len(xin) : xback[i] = xin[i]

\* the transform was applied twice to a buffer it changes
C7_Witness ==
    /\ orientation = 2
    /\ xback # <<>>
    /\ xout # xin
    /\ \E i \in 1..Len(xin) : xin[i] >= 128

-----------------------------------------------------------------------------
(* What a call of draw_bmp was given: args = <<file, x, y>> *)

\* the file has the "BM" magic
HasMagic(file) == Len(file) >= 2 /\ file[1] = 66 /\ file[2] = 77

\* the file has both headers in full
HasHeaders(file) == Len(file) >= 54

\* the fields of the BITMAPINFOHEADER of a file that has both headers
BmpWidthOf(file) ==
    file[19] + 256 * file[20] + 65536 * file[21] + 16777216 * file[22]
BmpHeightOf(file) ==
    file[23] + 256 * file[24] + 65536 * file[25] + 16777216 * file[26]
BmpDepthOf(file) == file[29] + 256 * file[30]

\* a picture the decoder accepts
Decodable(file) == HasMagic(file) /\ HasHeaders(file) /\ BmpDepthOf(file) = 1

\* the place (x, y) does not take the picture of file inside the logical
\* width lw and height lh
OutOfBounds(file, x, y, lw, lh) ==
    \/ x < 0
    \/ y < 0
    \/ HasHeaders(file) /\ x + BmpWidthOf(file) > lw
    \/ HasHeaders(file) /\ y + BmpHeightOf(file) > lh

LogicalWidth  == IF orientation \in {0, 2} THEN 176 ELSE 264
LogicalHeight == IF orientation \in {0, 2} THEN 264 ELSE 176

(* C8: a call draw_bmp(file, x, y) with x < 0, y < 0, x + bmp_width >      *)
(* logical width or y + bmp_height > logical height returns False, leaves  *)
(* every byte of the logical buffer as it was, writes no pin and writes    *)
(* nothing on the bus.                                                     *)
C8_OutOfBoundsRejected ==
    [][ ( /\ pc = "caller"
          /\ op' = "draw_bmp"
          /\ OutOfBounds(args'[1], args'[2], args'[3],
                         LogicalWidth, LogicalHeight) )
        => ( /\ result' = "False"
             /\ buffer' = buffer
             /\ log' = <<>>
             /\ cs' = cs /\ dc' = dc /\ rst' = rst ) ]_vars

\* a picture the decoder accepts was placed one pixel too far to the right
\* on a white buffer, the place itself being inside the buffer
C8_Witness ==
    /\ op = "draw_bmp"
    /\ pc = "return"
    /\ Decodable(args[1])
    /\ args[2] >= 0 /\ args[3] >= 0
    /\ args[2] < LogicalWidth
    /\ args[2] + BmpWidthOf(args[1]) = LogicalWidth + 1
    /\ result = "False"
    /\ buffer = Repeat(255, 5808)

-----------------------------------------------------------------------------
(* C9: draw_bmp of a file whose bits-per-pixel field is not 1 fails, and   *)
(* so does draw_bmp of a file whose first two bytes are not "BM"; the      *)
(* latter after the one read that returned those bytes (the 14-byte file   *)
(* header), with no further read; in both cases the logical buffer is left *)
(* as it was.                                                              *)
C9_UnsupportedRejected ==
    [][ ( /\ pc = "caller"
          /\ op' = "draw_bmp"
          /\ \/ ~HasMagic(args'[1])
             \/ HasHeaders(args'[1]) /\ BmpDepthOf(args'[1]) # 1 )
        => ( /\ result' = "False"
             /\ buffer' = buffer
             /\ ~HasMagic(args'[1]) => fread' = <<14>> ) ]_vars

\* a file with the magic and a depth of 257 (low byte 1) was refused at a
\* place where it would have fitted, on a white buffer
C9_Witness ==
    /\ op = "draw_bmp"
    /\ pc = "return"
    /\ HasMagic(args[1])
    /\ HasHeaders(args[1])
    /\ BmpDepthOf(args[1]) = 257
    /\ args[2] = 0 /\ args[3] = 0
    /\ result = "False"
    /\ fread = <<14, 40>>
    /\ buffer = Repeat(255, 5808)

-----------------------------------------------------------------------------
(* C10: chip-select is high in every state in which no bus write is under  *)
(* way (from construction on, and when a public method waits or returns);  *)
(* in the record of a call chip-select is low only from the write that     *)
(* pulls it low, over exactly one bus write, to the write that raises it;  *)
(* every bus write happens with chip-select low, a command byte with the   *)
(* data/command line low and data with it high; and the data/command line  *)
(* changes only by a write made while chip-select is high.                 *)
CsFall(e) == e.op = "cs" /\ e.arg = <<0>> /\ e.cs = 0
CsRise(e) == e.op = "cs" /\ e.arg = <<1>> /\ e.cs = 1

C10_Framing ==
    /\ cs = 1
    /\ (pc = "caller" /\ op = "-") => log = <<>>
    /\ \A i \in 1..Len(log) :
          LET e == log[i]
          IN  /\ IsSpi(e) =>
                    /\ e.cs = 0
                    /\ e.dc = (IF e.op = "spi_cmd" THEN 0 ELSE 1)
                    /\ i > 1 /\ CsFall(log[i - 1])
                    /\ i < Len(log) /\ CsRise(log[i + 1])
                    /\ log[i - 1].dc = e.dc /\ log[i + 1].dc = e.dc
              /\ e.cs = 0 => (IsSpi(e) \/ CsFall(e))
              /\ CsFall(e) => (i < Len(log) /\ IsSpi(log[i + 1]))
              /\ e.op = "dc" => e.cs = 1
              /\ i > 1 =>
                    /\ e.dc # log[i - 1].dc => (e.op = "dc" /\ log[i - 1].cs = 1)
                    /\ e.cs # log[i - 1].cs => e.op = "cs"

\* sleep() returned: a command byte and a data byte went out, each in a
\* chip-select frame of its own
C10_Witness ==
    /\ op = "sleep"
    /\ pc = "return"
    /\ cs = 1
    /\ dc = 1
    /\ Len(log) = 8
    /\ IsCmd(log[3], DEEP_SLEEP)
    /\ log[7].op = "spi_data" /\ log[7].arg = <<165>>
    /\ log[3].cs = 0 /\ log[4].cs = 1 /\ log[5].cs = 1 /\ log[7].cs = 0

-----------------------------------------------------------------------------
(* C11: sleep() sends exactly the deep-sleep command 0x07 followed by the  *)
(* one data byte 0xA5, and writes nothing else; and the driver offers no   *)
(* way back from sleep but the reset pulse: the reset line is written only *)
(* by init() and reset_display(), no other operation writes it or leaves   *)
(* it at another level than it found it.  (The driver keeps no record of   *)
(* the panel being asleep; that the panel stays asleep while the reset     *)
(* line is not pulsed is a fact of the panel, not of the driver.)          *)
ResetOps == {"init", "reset_display"}

-----------------------------------------------------------------------------
(* The methods that refresh the panel, with the busy loop running on: the  *)
(* loop is the only code that runs while pc = "wait_until_idle", and each  *)
(* pass ends (busy.value() and sleep_ms(100) return), so a pass that can   *)
(* be taken is eventually taken.  What the busy input reads is left free.  *)

NextRefresh ==
    \/ SetOrientation
    \/ DisplayFrame
    \/ Clear
    \/ FillBlack
    \/ WaitUntilIdle
    \/ Return

SpecRefresh == Init /\ [][NextRefresh]_vars /\ WF_vars(WaitUntilIdle)

\* a pass of the busy loop that reads the busy input idle
IdleRead == WaitUntilIdle /\ lastRead' # BUSY

(* C12: the busy wait has no timeout.  A pass of the loop that reads busy  *)
(* never returns, however many passes went before, so display_frame, clear *)
(* and fill_black stay in the wait as long as every read is busy; a pass   *)
(* that reads idle returns at once; and if the busy input reads idle at    *)
(* some pass whenever the loop keeps polling, every wait eventually        *)
(* returns.                                                                *)
C12_NoTimeout ==
    /\ [][ (pc = "wait_until_idle") =>
              /\ lastRead' = BUSY => pc' = "wait_until_idle"
              /\ lastRead' # BUSY => pc' = "return" ]_vars
    /\ SF_vars(IdleRead) => ((pc = "wait_until_idle") ~> (pc = "return"))

\* fill_black() returned after the loop had slept as often as is counted
C12_Witness ==
    /\ op = "fill_black"
    /\ pc = "return"
    /\ npolls = MaxPolls
    /\ lastRead = 1

-----------------------------------------------------------------------------
-----------------------------------------------------------------------------
(* Pixels of byte buffers with whole-byte rows, most significant bit first *)

\* pixel (x, y) of buf when a row takes stride bytes
PixelAt(buf, stride, x, y) ==
    (buf[y * stride + (x \div 8) + 1] \div Pow2[8 - (x % 8)]) % 2

NativeStride == (EPD_WIDTH + 7) \div 8          \* 22 bytes
LandscapeStride == (EPD_HEIGHT + 7) \div 8      \* 33 bytes

\* the logical pixels of a landscape buffer
LandscapePixels == (0..(EPD_HEIGHT - 1)) \X (0..(EPD_WIDTH - 1))

(* C14: for orientation 1 and every logical pixel (x, y), 0 <= x < 264,    *)
(* 0 <= y < 176, the buffer _rotate_buffer_90_cw returns holds at physical *)
(* (y, 263 - x), rows of 22 bytes, MSB first, the value the logical buffer *)
(* holds at (x, y), rows of 33 bytes; the loop addresses every physical    *)
(* pixel exactly once; and the result is 5808 bytes long.                  *)
C14_Rotate90Map ==
    (orientation = 1 /\ xout # <<>>) =>
        /\ Len(xout) = (EPD_WIDTH * EPD_HEIGHT) \div 8
        /\ \A p \in LandscapePixels :
              PixelAt(xout, NativeStride, p[2], EPD_HEIGHT - 1 - p[1])
                = PixelAt(xin, LandscapeStride, p[1], p[2])
        /\ LET hit == { physical_bit_index(
                            logical_to_physical_90(orientation, p[1], p[2])) :
                        p \in LandscapePixels }
           IN  /\ hit = 0..(EPD_WIDTH * EPD_HEIGHT - 1)
               /\ Cardinality(hit) = Cardinality(LandscapePixels)
        /\ \A p \in LandscapePixels :
              LET q == logical_to_physical_90(orientation, p[1], p[2])
              IN  /\ q[1] \in 0..(EPD_WIDTH - 1)
                  /\ q[2] \in 0..(EPD_HEIGHT - 1)

\* a patterned landscape buffer was rotated for orientation 1
C14_Witness ==
    /\ orientation = 1
    /\ xout # <<>>
    /\ xback = <<>>
    /\ xin[1] # xin[2]
    /\ PixelAt(xin, LandscapeStride, 263, 0) # PixelAt(xin, LandscapeStride, 0, 0)
    /\ PixelAt(xout, NativeStride, 0, 0) = PixelAt(xin, LandscapeStride, 263, 0)

-----------------------------------------------------------------------------
(* C15: for orientation 3 and every logical pixel (x, y), 0 <= x < 264,    *)
(* 0 <= y < 176, the buffer _rotate_buffer_270_cw returns holds at         *)
(* physical (175 - y, x), rows of 22 bytes, MSB first, the value the       *)
(* logical buffer holds at (x, y); the loop addresses every physical pixel *)
(* exactly once; and the result is 5808 bytes long.                        *)
C15_Rotate270Map ==
    (orientation = 3 /\ xout # <<>>) =>
        /\ Len(xout) = (EPD_WIDTH * EPD_HEIGHT) \div 8
        /\ \A p \in LandscapePixels :
              PixelAt(xout, NativeStride, EPD_WIDTH - 1 - p[2], p[1])
                = PixelAt(xin, LandscapeStride, p[1], p[2])
        /\ LET hit == { physical_bit_index(
                            logical_to_physical_270(orientation, p[1], p[2])) :
                        p \in LandscapePixels }
           IN  /\ hit = 0..(EPD_WIDTH * EPD_HEIGHT - 1)
               /\ Cardinality(hit) = Cardinality(LandscapePixels)
        /\ \A p \in LandscapePixels :
              LET q == logical_to_physical_270(orientation, p[1], p[2])
              IN  /\ q[1] \in 0..(EPD_WIDTH - 1)
                  /\ q[2] \in 0..(EPD_HEIGHT - 1)

\* a patterned landscape buffer was rotated for orientation 3
C15_Witness ==
    /\ orientation = 3
    /\ xout # <<>>
    /\ xback = <<>>
    /\ xin[1] # xin[2]
    /\ PixelAt(xin, LandscapeStride, 0, 175) # PixelAt(xin, LandscapeStride, 0, 0)
    /\ PixelAt(xout, NativeStride, 0, 0) = PixelAt(xin, LandscapeStride, 0, 175)

-----------------------------------------------------------------------------
(* C16: for orientation 2 and every pixel (x, y) of the native 176 x 264   *)
(* grid, the buffer display_frame streams holds at pixel (175 - x,         *)
(* 263 - y) the value the logical buffer holds at (x, y) (rows of 22 whole *)
(* bytes, 176 being a multiple of 8); bit b of the streamed buffer is bit  *)
(* 46463 - b of the logical buffer, the whole bitstream reversed.          *)
NativePixels == (0..(EPD_WIDTH - 1)) \X (0..(EPD_HEIGHT - 1))

\* bit b of the bitstream of buf, most significant bit of byte 0 first
StreamBit(buf, b) == (buf[(b \div 8) + 1] \div Pow2[8 - (b % 8)]) % 2

C16_Rotate180Map ==
    (orientation = 2 /\ xout # <<>>) =>
        /\ EPD_WIDTH % 8 = 0
        /\ Len(xout) = Len(xin)
        /\ \A p \in NativePixels :
              PixelAt(xout, NativeStride, EPD_WIDTH - 1 - p[1],
                                          EPD_HEIGHT - 1 - p[2])
                = PixelAt(xin, NativeStride, p[1], p[2])
        /\ \A b \in 0..(8 * Len(xin) - 1) :
              StreamBit(xout, b) = StreamBit(xin, 8 * Len(xin) - 1 - b)

\* a patterned buffer was transformed for orientation 2
C16_Witness ==
    /\ orientation = 2
    /\ xout # <<>>
    /\ xback = <<>>
    /\ PixelAt(xin, NativeStride, 0, 0) # PixelAt(xin, NativeStride, 175, 263)
    /\ PixelAt(xout, NativeStride, 175, 263) = PixelAt(xin, NativeStride, 0, 0)

-----------------------------------------------------------------------------
(* Commands and their data in the record of a call *)

\* position of the first command byte after position i, Len(l) + 1 if none
NextCmdAfter(l, i) ==
    LET later == { j \in (i + 1)..Len(l) : l[j].op = "spi_cmd" }
    IN  IF later = {} THEN Len(l) + 1 ELSE SetMin(later)

\* the data bytes that follow the command byte at position i, up to the
\* next command byte
DataOfCmd(l, i) == DataBytes(l, i + 1, NextCmdAfter(l, i) - 1)

\* a 16-bit value sent low byte first
LowHigh(bytes) == bytes[1] + 256 * bytes[2]

(* C17: every display_frame programs the RAM X address counter (command    *)
(* 0x4E) to 0 and the RAM Y address counter (command 0x4F, two data bytes, *)
(* low byte first) to 263 = native height - 1, a value inside the RAM Y    *)
(* window 0..263 that init programs with command 0x45.                     *)
C17_CountersAtWindowEnd ==
    Committed =>
        /\ CmdAt(log, 78) # {}
        /\ CmdAt(log, 79) # {}
        /\ \A i \in CmdAt(log, 78) : DataOfCmd(log, i) = <<0>>
        /\ \A i \in CmdAt(log, 79) :
              /\ Len(DataOfCmd(log, i)) = 2
              /\ LowHigh(DataOfCmd(log, i)) = EPD_HEIGHT - 1
              /\ LowHigh(DataOfCmd(log, i)) \in 0..263

-----------------------------------------------------------------------------
(* C18: a display_frame sends its bytes in the order: RAM X and Y address  *)
(* counters, write-RAM command 0x24, pixel stream, display update control  *)
(* 0x22, master activation 0x20, and then waits.  No 0x24 and no pixel     *)
(* byte goes out before both counters are programmed, and the data bytes   *)
(* that follow 0x24 commands are as many as the buffer has bytes.          *)
\* the command bytes of the log l, in the order sent
CmdBytes(l) ==
    LET cmds == SelectSeq(l, LAMBDA e : e.op = "spi_cmd")
    IN  [k \in 1..Len(cmds) |-> cmds[k].arg[1]]

\* number of data bytes that follow the 0x24 commands of l
PixelBytesSent(l) ==
    LET at == CmdAt(l, 36)
        RECURSIVE Sum(_)
        Sum(S) == IF S = {} THEN 0
                  ELSE LET i == SetMin(S)
                       IN  Len(DataOfCmd(l, i)) + Sum(S \ {i})
    IN  Sum(at)

C18_CommitOrder ==
    Committed =>
        /\ CmdBytes(log) = <<78, 79, 36, 34, 32>>
        /\ SetMin(CmdAt(log, 36)) > SetMax(CmdAt(log, 79))
        /\ PixelBytesSent(log) = Len(args)

-----------------------------------------------------------------------------
(* The commands of a call with the number of data bytes sent with each *)

\* the k-th smallest element of the set of numbers S
Nth(S, k) == CHOOSE p \in S : Cardinality({ q \in S : q < p }) = k - 1

AllCmds(l) == { i \in 1..Len(l) : l[i].op = "spi_cmd" }

\* << <<command byte, number of data bytes>>, ... >> in the order sent
CmdCounts(l) ==
    [k \in 1..Cardinality(AllCmds(l)) |->
        LET i == Nth(AllCmds(l), k)
        IN  << l[i].arg[1], Len(DataOfCmd(l, i)) >>]

\* the data bytes sent with the one command byte c of the log l
DataOf(l, c) == DataOfCmd(l, SetMin(CmdAt(l, c)))

(* C19 (as stated): after the reset pulse init() sends exactly 0x12;       *)
(* 0x01 + 3 data bytes; 0x11 + 1; 0x44 + 2; 0x45 + 4; 0x3C + 1; 0x18 + 1;  *)
(* 0x22 + 1; then 0x4E + 1 and 0x4F + 2, and nothing else.                 *)
C19_InitSequence ==
    (op = "init") =>
        CmdCounts(log) =
            << <<18, 0>>, <<1, 3>>, <<17, 1>>, <<68, 2>>, <<69, 4>>,
               <<60, 1>>, <<24, 1>>, <<34, 1>>, <<78, 1>>, <<79, 2>> >>

(* C19 (amended): after the reset pulse init() sends exactly 0x12;         *)
(* 0x01 + 3 data bytes; 0x11 + 1; 0x44 + 2; 0x45 + 4; 0x3C + 1; 0x18 + 1;  *)
(* 0x22 + 1; master activation 0x20 with no data; then 0x4E + 1 and        *)
(* 0x4F + 2 priming the counters to (0, 0), and nothing else; the X window *)
(* is bytes 0..21 (176 pixels) and the Y window rows 0..263 (264 rows).    *)
C19_InitSequenceWithActivation ==
    (op = "init") =>
        /\ pc = "return"
        /\ CmdCounts(log) =
              << <<18, 0>>, <<1, 3>>, <<17, 1>>, <<68, 2>>, <<69, 4>>,
                 <<60, 1>>, <<24, 1>>, <<34, 1>>, <<32, 0>>,
                 <<78, 1>>, <<79, 2>> >>
        /\ DataOf(log, 78) = <<0>>
        /\ DataOf(log, 79) = <<0, 0>>
        /\ DataOf(log, 68)[1] = 0
        /\ (DataOf(log, 68)[2] + 1) * 8 = EPD_WIDTH
        /\ LowHigh(SubSeq(DataOf(log, 69), 1, 2)) = 0
        /\ LowHigh(SubSeq(DataOf(log, 69), 3, 4)) + 1 = EPD_HEIGHT
        /\ \A i \in 1..Len(log) :
              IsSpi(log[i]) => \A j \in i..Len(log) : log[j].op # "rst"

\* init() returned, having sent the master activation between the display
\* update control and the counters
C19_Witness ==
    /\ op = "init"
    /\ pc = "return"
    /\ CmdAt(log, 32) # {}
    /\ SetMin(CmdAt(log, 34)) < SetMin(CmdAt(log, 32))
    /\ SetMin(CmdAt(log, 32)) < SetMin(CmdAt(log, 78))

-----------------------------------------------------------------------------
(* C20: init() and reset_display() drive the reset line high, low, high,   *)
(* in that order, each edge followed by a delay of at least 200 ms, 2 ms   *)
(* and 200 ms, before they send the first command byte; and no byte is     *)
(* sent while the reset line is low once a reset pulse has begun: not      *)
(* inside these two methods, and not by any method called afterwards.      *)
RstAt(l) == { i \in 1..Len(l) : l[i].op = "rst" }

\* the pulse is at positions i .. i + 5 of the log l
PulseAt(l, i) ==
    /\ i + 5 <= Len(l)
    /\ l[i].op = "rst" /\ l[i].arg = <<1>> /\ l[i].rst = 1
    /\ l[i + 1].op = "sleep" /\ l[i + 1].arg[1] >= 200
    /\ l[i + 2].op = "rst" /\ l[i + 2].arg = <<0>> /\ l[i + 2].rst = 0
    /\ l[i + 3].op = "sleep" /\ l[i + 3].arg[1] >= 2
    /\ l[i + 4].op = "rst" /\ l[i + 4].arg = <<1>> /\ l[i + 4].rst = 1
    /\ l[i + 5].op = "sleep" /\ l[i + 5].arg[1] >= 200

C20_ResetPulse ==
    /\ (op \in ResetOps) =>
          /\ PulseAt(log, 1)
          /\ op = "reset_display" => PulseAt(log, 7)
          /\ RstAt(log) = (IF op = "init" THEN {1, 3, 5}
                                          ELSE {1, 3, 5, 7, 9, 11})
          /\ AllCmds(log) # {}
          /\ SetMin(AllCmds(log)) > SetMax(RstAt(log)) + 1
          /\ \A i \in 1..Len(log) : IsSpi(log[i]) => log[i].rst = 1
          /\ rst = 1
    /\ (op \notin ResetOps /\ rst = 1) =>
          \A i \in 1..Len(log) : log[i].rst = 1

\* reset_display() returned: two pulses, then the commands
C20_Witness ==
    /\ op = "reset_display"
    /\ pc = "return"
    /\ Cardinality(RstAt(log)) = 6
    /\ rst = 1
    /\ lastRead = 1

-----------------------------------------------------------------------------
(* _send_buffer_batched alone, called with buffers of every length from 0  *)
(* to MaxBatchLen.                                                         *)

MaxBatchLen == 130

\* two buffers of each length, with bytes that differ from place to place
BatchInputs ==
    { [i \in 1..n |-> (i * m + m) % 256] : n \in 0..MaxBatchLen, m \in {1, 7} }

InitBatch ==
    /\ orientation = 0
    /\ fbw = width(orientation)
    /\ fbh = height(orientation)
    /\ buffer = ZeroBytes(buffer_size(orientation))
    /\ cs = 1
    /\ dc = 0
    /\ rst = 0
    /\ pc = "caller"
    /\ op = "-"
    /\ log = <<>>
    /\ lastRead = 0 - 1
    /\ npolls = 0
    /\ result = "None"
    /\ fread = <<>>
    /\ args = <<>>
    /\ xin \in BatchInputs
    /\ xout = <<>>
    /\ xback = <<>>

\* EPD._send_buffer_batched(xin)
SendBufferBatched ==
    /\ Enter("_send_buffer_batched", xin)
    /\ Wires(Exec(Pins, _send_buffer_batched(xin)))
    /\ pc' = "return"
    /\ result' = "None"
    /\ UNCHANGED <<orientation, buffer, fread>>

NextBatch == SendBufferBatched

SpecBatch == InitBatch /\ [][NextBatch]_vars

\* the data transfers of the log l, in the order made
Transfers(l) == SelectSeq(l, LAMBDA e : e.op = "spi_data")

(* C21: for every buffer of length n >= 0, a multiple of the batch size 64 *)
(* or not, _send_buffer_batched makes ceil(n/64) data transfers, each of   *)
(* at most 64 bytes and none empty, and the transfers joined in the order  *)
(* made are the buffer: same bytes, same order, same count.                *)
C21_Batching ==
    (op = "_send_buffer_batched") =>
        LET n == Len(args)
            t == Transfers(log)
        IN  /\ Len(t) = (n + 63) \div 64
            /\ \A k \in 1..Len(t) : Len(t[k].arg) \in 1..64
            /\ DataBytes(log, 1, Len(log)) = args
            /\ \A i \in 1..Len(log) : log[i].op # "spi_cmd"

\* a buffer of two full batches and a partial one of two bytes has been sent
C21_Witness ==
    /\ op = "_send_buffer_batched"
    /\ Len(args) = 2 * SPI_BATCH_SIZE + 2
    /\ Len(Transfers(log)) = 3
    /\ Len(Transfers(log)[3].arg) = 2
    /\ args[1] # args[2]

-----------------------------------------------------------------------------
(* C22: in every operation (init, display_frame, clear, fill_black,        *)
(* reset_display), after each master activation (0x20) and after the soft  *)
(* reset (0x12) the driver sends no further command or data byte until a   *)
(* busy-wait has read the busy input as idle.  The busy input is read only *)
(* by wait_until_idle, which these operations call, if at all, after the   *)
(* last event of their log: a byte that follows 0x20 or 0x12 in the log of *)
(* one call was sent with no read of the busy input in between.            *)
C22_BusyGates ==
    /\ \A i \in CmdAt(log, 32) \cup CmdAt(log, 18) :
          \A j \in (i + 1)..Len(log) : ~IsSpi(log[j])
    /\ (pc = "return" /\ CmdAt(log, 32) \cup CmdAt(log, 18) # {}) =>
          lastRead # BUSY /\ lastRead \in {0, 1}

====
